---------------------------- MODULE Spec2Model ----------------------------
(***************************************************************************)
(* A model of code/Utils.py (GetEvidence) and code/Models.py               *)
(* (ModelA_lightcurve, ModelB_lightcurve).                                 *)
(*                                                                         *)
(* Text (paths, file names, numeric tokens) is a sequence of one-character *)
(* strings, so that concatenation, the substring test and the parsing of   *)
(* a number are computed.  A number is an exact value c * e^q with c and q *)
(* rational, or an infinity, or NaN: the arithmetic of the light curves is *)
(* the arithmetic of IEEE-754 without its rounding.                        *)
(***************************************************************************)
EXTENDS Integers, Sequences, FiniteSets, TLC

VARIABLES
    \* ---- the filesystem and one activation of GetEvidence (Utils.py)
    fs,             \* directory path -> (entry name -> file content)
    pc,             \* "idle", "line8", "line9", "line10", "index", "returned", "raised"
    eventID,        \* argument
    model,          \* argument
    folder,         \* local, line 7
    files,          \* local, line 8
    evidence_file,  \* local, line 9
    loaded,         \* the array np.loadtxt gave, line 10
    ret,            \* the value returned
    exc,            \* the exception raised, and the step that raised it
    ops,            \* the library calls of this activation, in order
    opened,         \* the paths this activation handed to np.loadtxt
    prev,           \* the outcome of the activation before this one
    \* ---- one activation of ModelA_lightcurve / ModelB_lightcurve (Models.py)
    lpc,            \* "idle", "A23", "A24", "A25", "B46", "B47", "B48", "returned", "raised"
    fn,             \* the function called: "A" or "B"
    times,          \* argument: the numpy array of time stamps
    params,         \* argument: the dict of parameters
    errstate,       \* numpy's floating-point error policy: "warn" (default) or "raise"
    x,              \* local, line 23 / 46
    light_curve,    \* local, line 24 / 47
    lret,           \* the array returned
    lexc            \* the exception raised

evars == <<fs, pc, eventID, model, folder, files, evidence_file, loaded, ret,
           exc, ops, opened, prev>>
lvars == <<lpc, fn, times, params, errstate, x, light_curve, lret, lexc>>
vars == <<evars, lvars>>

---------------------------------------------------------------------------
(* Bounds of the model. *)

\* the most entries a results directory holds
MaxEntries == 2
\* the longest time array
MaxLen == 2
\* time stamps are the integers -MaxT .. MaxT
MaxT == 2
\* durations are the integers -MaxD .. MaxD
MaxD == 2
\* amplitudes are the integers -MaxAmp .. MaxAmp
MaxAmp == 1

---------------------------------------------------------------------------
(* Numbers. *)

Abs(n) == IF n < 0 THEN -n ELSE n

RECURSIVE GCD(_, _)
GCD(a, b) == IF b = 0 THEN a ELSE GCD(b, a % b)

\* the value (n/d) * e^(en/ed), in lowest terms, d > 0, ed > 0; zero is 0/1 * e^0
Fin(n, d, en, ed) ==
    LET g  == GCD(Abs(n), Abs(d))
        s  == IF d < 0 THEN -1 ELSE 1
        eg == GCD(Abs(en), Abs(ed))
        es == IF ed < 0 THEN -1 ELSE 1
    IN  IF n = 0 \/ en = 0
        THEN [k |-> "fin", n |-> (s * n) \div g, d |-> Abs(d) \div g, en |-> 0, ed |-> 1]
        ELSE [k |-> "fin", n |-> (s * n) \div g, d |-> Abs(d) \div g,
              en |-> (es * en) \div eg, ed |-> Abs(ed) \div eg]

Rat(n, d) == Fin(n, d, 0, 1)
Inf(sign) == [k |-> "inf", n |-> sign, d |-> 1, en |-> 0, ed |-> 1]
NaN == [k |-> "nan", n |-> 0, d |-> 1, en |-> 0, ed |-> 1]

IsFinite(v) == v.k = "fin"
IsRational(v) == v.k = "fin" /\ v.en = 0
Sign(v) == IF v.n > 0 THEN 1 ELSE IF v.n < 0 THEN -1 ELSE 0

\* == of two floats: NaN equals nothing, itself included
FloatEq(a, b) == a.k # "nan" /\ b.k # "nan" /\ a = b

---------------------------------------------------------------------------
(* Text. *)

Digits == <<"0", "1", "2", "3", "4", "5", "6", "7", "8", "9">>
DigitChars == {Digits[i] : i \in 1..Len(Digits)}
DigitVal(c) == (CHOOSE i \in 1..Len(Digits) : Digits[i] = c) - 1

RECURSIVE NatToStr(_)
NatToStr(n) == IF n < Len(Digits) THEN <<Digits[n + 1]>>
               ELSE NatToStr(n \div Len(Digits)) \o <<Digits[(n % Len(Digits)) + 1]>>

\* str(eventID) of an int
Str(n) == IF n < 0 THEN <<"-">> \o NatToStr(-n) ELSE NatToStr(n)

\* pat in s
Contains(pat, s) ==
    \E i \in 0..(Len(s) - Len(pat)) : SubSeq(s, i + 1, i + Len(pat)) = pat

RECURSIVE DigitsToNat(_)
DigitsToNat(ds) == IF ds = <<>> THEN 0
                   ELSE Len(Digits) * DigitsToNat(SubSeq(ds, 1, Len(ds) - 1))
                        + DigitVal(ds[Len(ds)])

RECURSIVE PowTen(_)
PowTen(e) == IF e = 0 THEN 1 ELSE Len(Digits) * PowTen(e - 1)

\* ParseFloat with a field that does not convert read as NaN, as np.genfromtxt
\* reads it
ParseFloatLenient(tok) == [ok |-> TRUE, val |-> NaN]

\* float(token) as np.loadtxt applies it to one field: an optional sign, digits,
\* at most one point; anything else does not convert
ParseFloat(tok) ==
    LET signed == Len(tok) > 0 /\ tok[1] \in {"-", "+"}
        body   == IF signed THEN Tail(tok) ELSE tok
        sgn    == IF signed /\ tok[1] = "-" THEN -1 ELSE 1
        dots   == {i \in 1..Len(body) : body[i] = "."}
        digs   == SelectSeq(body, LAMBDA c : c # ".")
        ok     == /\ Cardinality(dots) <= 1
                  /\ Len(digs) >= 1
                  /\ \A i \in 1..Len(digs) : digs[i] \in DigitChars
        frac   == IF dots = {} THEN 0 ELSE Len(body) - (CHOOSE i \in dots : TRUE)
    IN  IF ok THEN [ok |-> TRUE, val |-> Rat(sgn * DigitsToNat(digs), PowTen(frac))]
        ELSE [ok |-> FALSE, val |-> NaN]

---------------------------------------------------------------------------
(* numpy arrays and scalars, as far as GetEvidence sees them. *)

NoValue == [kind |-> "none", shape |-> <<>>, data |-> <<>>]
NdArray(shape, data) == [kind |-> "ndarray", shape |-> shape, data |-> data]
Float64(v) == [kind |-> "float", shape |-> <<>>, data |-> <<v>>]

RECURSIVE Flatten(_)
Flatten(rows) == IF rows = <<>> THEN <<>> ELSE Head(rows) \o Flatten(Tail(rows))

\* Squeeze left out: the array stays rows x columns
SqueezeNone(shape) == shape

\* np.squeeze: the axes of length one are dropped
Squeeze(shape) == SelectSeq(shape, LAMBDA n : n # 1)

\* np.loadtxt(path) on a file of the given lines (each the fields of one line):
\* blank lines are skipped, every field must convert and every row must have as
\* many fields as the first; the rows x columns array is then squeezed.  A file
\* with no row gives an empty one-dimensional array (and a warning).
LoadTxt(content) ==
    LET rows   == SelectSeq(content, LAMBDA ln : Len(ln) > 0)
        ncols  == IF rows = <<>> THEN 0 ELSE Len(rows[1])
        ok     == \A r \in 1..Len(rows) :
                      /\ Len(rows[r]) = ncols
                      /\ \A c \in 1..Len(rows[r]) : ParseFloat(rows[r][c]).ok
        values == [r \in 1..Len(rows) |->
                      [c \in 1..Len(rows[r]) |-> ParseFloat(rows[r][c]).val]]
    IN  IF ~ok THEN [ok |-> FALSE, arr |-> NoValue]
        ELSE IF rows = <<>> THEN [ok |-> TRUE, arr |-> NdArray(<<0>>, <<>>)]
        ELSE [ok |-> TRUE,
              arr |-> NdArray(Squeeze(<<Len(rows), ncols>>), Flatten(values))]

\* Index0 with the last element taken, arr[-1]
Index0Last(arr) ==
    IF Len(arr.shape) = 0 \/ arr.shape[1] = 0 THEN [ok |-> FALSE, val |-> NoValue]
    ELSE IF Len(arr.shape) = 1
    THEN [ok |-> TRUE, val |-> [kind |-> "float", shape |-> <<>>,
                                data |-> <<arr.data[Len(arr.data)]>>]]
    ELSE [ok |-> TRUE,
          val |-> NdArray(Tail(arr.shape),
                          SubSeq(arr.data, Len(arr.data) - arr.shape[2] + 1, Len(arr.data)))]

\* arr[0]: an index error on a zero-dimensional or an empty array, the first
\* element of a one-dimensional array, the first row of a two-dimensional one
Index0(arr) ==
    IF Len(arr.shape) = 0 \/ arr.shape[1] = 0 THEN [ok |-> FALSE, val |-> NoValue]
    ELSE IF Len(arr.shape) = 1 THEN [ok |-> TRUE, val |-> Float64(arr.data[1])]
    ELSE [ok |-> TRUE,
          val |-> NdArray(Tail(arr.shape), SubSeq(arr.data, 1, arr.shape[2]))]

---------------------------------------------------------------------------
(* The filesystem GetEvidence reads. *)

ResultsPrefix == <<"r", "e", "s", "u", "l", "t", "s", "/", "e", "v", "e", "n", "t">>
Underscore == <<"_">>
Slash == <<"/">>
EvidencePattern == <<"e", "v", "i", "d", "e", "n", "c", "e", ".", "t", "x", "t">>

\* folder = 'results/event'+str(eventID)+'_'+model+'/'
Folder(e, m) == ResultsPrefix \o Str(e) \o Underscore \o m \o Slash

\* Matching with the filter left out: every entry is selected
MatchingAll(fl) == fl

\* Matching with the selection in reverse listing order
MatchingReversed(fl) ==
    LET m == SelectSeq(fl, LAMBDA file : Contains(EvidencePattern, file))
    IN  [i \in 1..Len(m) |-> m[Len(m) + 1 - i]]

\* [file for file in files if 'evidence.txt' in file]
Matching(fl) == SelectSeq(fl, LAMBDA file : Contains(EvidencePattern, file))

\* the arguments a caller passes
EventIDs == {7, 42}
ModelLabels == {<<"A">>, <<"B">>}

\* the results directories an analysis run may have prepared
PreparedDirs ==
    { <<"r", "e", "s", "u", "l", "t", "s", "/", "e", "v", "e", "n", "t", "4", "2", "_", "A", "/">>,
      <<"r", "e", "s", "u", "l", "t", "s", "/", "e", "v", "e", "n", "t", "7", "_", "B", "/">> }

\* the names of the entries a results directory may hold
FileNames ==
    { <<"r", "u", "n", "1", "_", "e", "v", "i", "d", "e", "n", "c", "e", ".", "t", "x", "t">>,
      <<"e", "v", "i", "d", "e", "n", "c", "e", ".", "t", "x", "t", ".", "b", "a", "k">>,
      <<"E", "v", "i", "d", "e", "n", "c", "e", ".", "t", "x", "t">>,
      <<"n", "o", "t", "e", "s", ".", "m", "d">> }

T314 == <<"3", ".", "1", "4">>
T001 == <<"0", ".", "0", "1">>
T25 == <<"-", "2", ".", "5">>
T7 == <<"7">>
Tabc == <<"a", "b", "c">>

\* the contents a file may have: the lines, each the fields of the line
RowFile == << <<T314, T001>> >>
ColumnFile == << <<T25>>, <<T001>> >>
SingleFile == << <<T7>> >>
MatrixFile == << <<T001, T314>>, <<T25, T7>> >>
EmptyFile == << >>
TextFile == << <<Tabc, T001>> >>
RaggedFile == << <<T314, T001>>, <<T7>> >>
FileContents == {RowFile, ColumnFile, SingleFile, MatrixFile, EmptyFile, TextFile,
                 RaggedFile}

\* a filesystem: no results directory, or one prepared directory of at most
\* MaxEntries entries
Filesystems ==
    { [p \in {} |-> [n \in {} |-> EmptyFile]] } \cup
    UNION { UNION { { [p \in {d} |-> dir] : dir \in [S -> FileContents] } :
                    S \in {T \in SUBSET FileNames : Cardinality(T) <= MaxEntries} } :
            d \in PreparedDirs }

\* os.listdir gives the names in an arbitrary order
Listings(S) ==
    {f \in [1..Cardinality(S) -> S] : \A i, j \in 1..Cardinality(S) : i # j => f[i] # f[j]}

\* the file np.loadtxt opens at a path
FilesAt(path) ==
    { dn \in UNION { { <<d, n>> : n \in DOMAIN fs[d] } : d \in DOMAIN fs } :
        dn[1] \o dn[2] = path }
ReadFile(path) == LET dn == CHOOSE h \in FilesAt(path) : TRUE IN fs[dn[1]][dn[2]]

---------------------------------------------------------------------------
(* GetEvidence, a step per library call. *)

NoExc == [type |-> "none", at |-> "none"]
NoOutcome == [eventID |-> 0, model |-> <<>>, pc |-> "none", ret |-> NoValue, exc |-> NoExc]

Raise(type, at) ==
    /\ pc' = "raised"
    /\ exc' = [type |-> type, at |-> at]

\* line 6-7: the call, and the folder built from its arguments
Call(e, m) ==
    /\ pc \in {"idle", "returned", "raised"}
    /\ prev' = IF pc = "idle" THEN prev
               ELSE [eventID |-> eventID, model |-> model, pc |-> pc, ret |-> ret,
                     exc |-> exc]
    /\ eventID' = e
    /\ model' = m
    /\ folder' = Folder(e, m)
    /\ files' = <<>>
    /\ evidence_file' = <<>>
    /\ loaded' = NoValue
    /\ ret' = NoValue
    /\ exc' = NoExc
    /\ ops' = <<>>
    /\ opened' = <<>>
    /\ pc' = "line8"
    /\ UNCHANGED fs

\* ListDirMissing with a missing directory listed as an empty one
ListDirMissingAsEmpty ==
    /\ pc = "line8"
    /\ folder \notin DOMAIN fs
    /\ ops' = Append(ops, "listdir")
    /\ files' = <<>>
    /\ pc' = "line9"
    /\ UNCHANGED <<fs, eventID, model, folder, evidence_file, loaded, ret, exc,
                   opened, prev>>

\* line 8: files = os.listdir(folder)
ListDirMissing ==
    /\ pc = "line8"
    /\ folder \notin DOMAIN fs
    /\ ops' = Append(ops, "listdir")
    /\ Raise("FileNotFoundError", "listdir")
    /\ UNCHANGED <<fs, eventID, model, folder, files, evidence_file, loaded, ret,
                   opened, prev>>

ListDir ==
    /\ pc = "line8"
    /\ folder \in DOMAIN fs
    /\ ops' = Append(ops, "listdir")
    /\ \E l \in Listings(DOMAIN fs[folder]) : files' = l
    /\ pc' = "line9"
    /\ UNCHANGED <<fs, eventID, model, folder, evidence_file, loaded, ret, exc,
                   opened, prev>>

\* line 9: evidence_file = [file for file in files if 'evidence.txt' in file][0]
SelectNone ==
    /\ pc = "line9"
    /\ Matching(files) = <<>>
    /\ ops' = Append(ops, "filter")
    /\ Raise("IndexError", "select")
    /\ UNCHANGED <<fs, eventID, model, folder, files, evidence_file, loaded, ret,
                   opened, prev>>

Select ==
    /\ pc = "line9"
    /\ Matching(files) # <<>>
    /\ ops' = Append(ops, "filter")
    /\ evidence_file' = Matching(files)[1]
    /\ pc' = "line10"
    /\ UNCHANGED <<fs, eventID, model, folder, files, loaded, ret, exc, opened, prev>>

\* line 10: np.loadtxt(folder+evidence_file)
LoadFails ==
    /\ pc = "line10"
    /\ ~LoadTxt(ReadFile(folder \o evidence_file)).ok
    /\ ops' = Append(ops, "loadtxt")
    /\ opened' = Append(opened, folder \o evidence_file)
    /\ Raise("ValueError", "loadtxt")
    /\ UNCHANGED <<fs, eventID, model, folder, files, evidence_file, loaded, ret, prev>>

Load ==
    /\ pc = "line10"
    /\ LoadTxt(ReadFile(folder \o evidence_file)).ok
    /\ ops' = Append(ops, "loadtxt")
    /\ opened' = Append(opened, folder \o evidence_file)
    /\ loaded' = LoadTxt(ReadFile(folder \o evidence_file)).arr
    /\ pc' = "index"
    /\ UNCHANGED <<fs, eventID, model, folder, files, evidence_file, ret, exc, prev>>

\* line 10: return ...[0]
IndexFails ==
    /\ pc = "index"
    /\ ~Index0(loaded).ok
    /\ ops' = Append(ops, "index")
    /\ Raise("IndexError", "index")
    /\ UNCHANGED <<fs, eventID, model, folder, files, evidence_file, loaded, ret,
                   opened, prev>>

Return ==
    /\ pc = "index"
    /\ Index0(loaded).ok
    /\ ops' = Append(ops, "index")
    /\ ret' = Index0(loaded).val
    /\ pc' = "returned"
    /\ UNCHANGED <<fs, eventID, model, folder, files, evidence_file, loaded, exc,
                   opened, prev>>

LightCurveIdle ==
    /\ lpc = "idle"
    /\ fn = "none"
    /\ times = <<>>
    /\ params = [key \in {} |-> 0]
    /\ errstate = "warn"
    /\ x = <<>>
    /\ light_curve = <<>>
    /\ lret = <<>>
    /\ lexc = "none"

EvidenceIdle ==
    /\ pc = "idle"
    /\ eventID = 0
    /\ model = <<>>
    /\ folder = <<>>
    /\ files = <<>>
    /\ evidence_file = <<>>
    /\ loaded = NoValue
    /\ ret = NoValue
    /\ exc = NoExc
    /\ ops = <<>>
    /\ opened = <<>>
    /\ prev = NoOutcome

InitEvidence ==
    /\ fs \in Filesystems
    /\ EvidenceIdle
    /\ LightCurveIdle

NextEvidence ==
    \/ \E e \in EventIDs, m \in ModelLabels : Call(e, m) /\ UNCHANGED lvars
    \/ ListDirMissing /\ UNCHANGED lvars
    \/ ListDir /\ UNCHANGED lvars
    \/ SelectNone /\ UNCHANGED lvars
    \/ Select /\ UNCHANGED lvars
    \/ LoadFails /\ UNCHANGED lvars
    \/ Load /\ UNCHANGED lvars
    \/ IndexFails /\ UNCHANGED lvars
    \/ Return /\ UNCHANGED lvars

SpecEvidence == InitEvidence /\ [][NextEvidence]_vars

---------------------------------------------------------------------------
(* numpy's elementwise arithmetic, as far as the light curves use it. *)

IsZero(v) == v.k = "fin" /\ v.n = 0

\* a * b
Multiply(a, b) ==
    CASE a.k = "nan" \/ b.k = "nan" -> NaN
      [] a.k = "fin" /\ b.k = "fin" ->
            Fin(a.n * b.n, a.d * b.d, a.en * b.ed + b.en * a.ed, a.ed * b.ed)
      [] (a.k = "inf" /\ IsZero(b)) \/ (IsZero(a) /\ b.k = "inf") -> NaN
      [] a.k = "inf" \/ b.k = "inf" -> Inf(Sign(a) * Sign(b))

\* Divide with every division by zero giving NaN
DivideZeroNaN(a, b) ==
    CASE a.k = "nan" \/ b.k = "nan" -> NaN
      [] a.k = "inf" /\ b.k = "inf" -> NaN
      [] a.k = "inf" -> Inf(Sign(a) * (IF Sign(b) < 0 THEN -1 ELSE 1))
      [] b.k = "inf" -> Rat(0, 1)
      [] b.k = "fin" /\ b.n = 0 -> NaN
      [] a.k = "fin" /\ b.k = "fin" ->
            Fin(a.n * b.d, a.d * b.n, a.en * b.ed - b.en * a.ed, a.ed * b.ed)

\* a / b: a zero divisor gives NaN for 0/0 and an infinity otherwise
Divide(a, b) ==
    CASE a.k = "nan" \/ b.k = "nan" -> NaN
      [] a.k = "inf" /\ b.k = "inf" -> NaN
      [] a.k = "inf" -> Inf(Sign(a) * (IF Sign(b) < 0 THEN -1 ELSE 1))
      [] b.k = "inf" -> Rat(0, 1)
      [] IsZero(b) -> IF IsZero(a) THEN NaN ELSE Inf(Sign(a))
      [] a.k = "fin" /\ b.k = "fin" ->
            Fin(a.n * b.d, a.d * b.n, a.en * b.ed - b.en * a.ed, a.ed * b.ed)

\* the division sets the divide-by-zero or the invalid floating-point flag
DivideFlags(a, b) == a.k = "fin" /\ IsZero(b)

\* -a
Negative(a) ==
    CASE a.k = "nan" -> NaN
      [] a.k = "inf" -> Inf(-a.n)
      [] a.k = "fin" -> Fin(-a.n, a.d, a.en, a.ed)

\* a + b, of two values with the same exponential factor
Add(a, b) ==
    CASE a.k = "nan" \/ b.k = "nan" -> NaN
      [] a.k = "inf" /\ b.k = "inf" -> IF a.n = b.n THEN a ELSE NaN
      [] a.k = "inf" -> a
      [] b.k = "inf" -> b
      [] a.k = "fin" /\ b.k = "fin" /\ a.en = b.en /\ a.ed = b.ed ->
            Fin(a.n * b.d + b.n * a.d, a.d * b.d, a.en, a.ed)

\* np.exp(a), of a rational or an infinity
Exp(a) ==
    CASE a.k = "nan" -> NaN
      [] a.k = "inf" -> IF a.n > 0 THEN Inf(1) ELSE Rat(0, 1)
      [] IsRational(a) -> Fin(1, 1, a.n, a.d)

\* ArrayDivide with the last element left out
ArrayDivideDropLast(arr, b) == [i \in 1..(Len(arr) - 1) |-> Divide(arr[i], b)]

\* ArraySquare with the square left out: x in place of x**2
ArraySquareMissing(arr) == arr

\* broadcasting: an operation of an array and a scalar is applied to each element
ArrayDivide(arr, b) == [i \in 1..Len(arr) |-> Divide(arr[i], b)]
ArraySquare(arr) == [i \in 1..Len(arr) |-> Multiply(arr[i], arr[i])]
ArrayNegative(arr) == [i \in 1..Len(arr) |-> Negative(arr[i])]
ArrayExp(arr) == [i \in 1..Len(arr) |-> Exp(arr[i])]
ScalarTimes(a, arr) == [i \in 1..Len(arr) |-> Multiply(a, arr[i])]
ScalarPlus(a, arr) == [i \in 1..Len(arr) |-> Add(a, arr[i])]
ScalarOver(a, arr) == [i \in 1..Len(arr) |-> Divide(a, arr[i])]

\* an elementwise division raises FloatingPointError under np.seterr(all='raise')
ArrayDivideRaises(arr, b, es) ==
    es = "raise" /\ \E i \in 1..Len(arr) : DivideFlags(arr[i], b)

---------------------------------------------------------------------------
(* ModelA_lightcurve and ModelB_lightcurve, a step per line. *)

\* x = times / params['duration']
XOf(t, p) == ArrayDivide(t, p["duration"])

\* params['amplitude']*np.exp( -x**2 )
ModelA_curve(xs, p) == ScalarTimes(p["amplitude"], ArrayExp(ArrayNegative(ArraySquare(xs))))

\* ModelB_curve with the 1 + left out
ModelB_curveNoOne(xs, p) == ScalarOver(p["amplitude"], ArraySquare(xs))

\* params['amplitude'] / ( 1 + x**2 )
ModelB_curve(xs, p) == ScalarOver(p["amplitude"], ScalarPlus(Rat(1, 1), ArraySquare(xs)))

\* the functions on inputs that raise nothing
ModelA_lightcurve(t, p) == ModelA_curve(XOf(t, p), p)
ModelB_lightcurve(t, p) == ModelB_curve(XOf(t, p), p)

\* the arguments a caller passes
Timestamps == {Rat(t, 1) : t \in (-MaxT)..MaxT}
TimeArrays == UNION { [1..n -> Timestamps] : n \in 0..MaxLen }
Amplitudes == {Rat(a, 1) : a \in (-MaxAmp)..MaxAmp}
Durations == {Rat(d, 1) : d \in (-MaxD)..MaxD}
ParamKeys == {"amplitude", "duration"}
ParamDicts ==
    UNION { { p \in [K -> Amplitudes \cup Durations] :
                /\ "amplitude" \in K => p["amplitude"] \in Amplitudes
                /\ "duration" \in K => p["duration"] \in Durations } :
            K \in SUBSET ParamKeys }
ErrStates == {"warn", "raise"}

LRaise(type) ==
    /\ lpc' = "raised"
    /\ lexc' = type

\* the call: the functions keep no state, one activation is followed
LCall(f, t, p, es) ==
    /\ lpc = "idle"
    /\ fn' = f
    /\ times' = t
    /\ params' = p
    /\ errstate' = es
    /\ x' = <<>>
    /\ light_curve' = <<>>
    /\ lret' = <<>>
    /\ lexc' = "none"
    /\ lpc' = IF f = "A" THEN "A23" ELSE "B46"

\* line 23 / 46: x = times / params['duration']
DivideByDuration(next) ==
    IF "duration" \notin DOMAIN params
    THEN LRaise("KeyError") /\ UNCHANGED x
    ELSE IF ArrayDivideRaises(times, params["duration"], errstate)
    THEN LRaise("FloatingPointError") /\ UNCHANGED x
    ELSE x' = XOf(times, params) /\ lpc' = next /\ UNCHANGED lexc

ModelA_line23 ==
    /\ lpc = "A23"
    /\ DivideByDuration("A24")
    /\ UNCHANGED <<fn, times, params, errstate, light_curve, lret>>

\* line 24: light_curve = params['amplitude']*np.exp( -x**2 )
ModelA_line24 ==
    /\ lpc = "A24"
    /\ IF "amplitude" \notin DOMAIN params
       THEN LRaise("KeyError") /\ UNCHANGED light_curve
       ELSE light_curve' = ModelA_curve(x, params) /\ lpc' = "A25" /\ UNCHANGED lexc
    /\ UNCHANGED <<fn, times, params, errstate, x, lret>>

\* line 25: return light_curve
ModelA_line25 ==
    /\ lpc = "A25"
    /\ lret' = light_curve
    /\ lpc' = "returned"
    /\ UNCHANGED <<fn, times, params, errstate, x, light_curve, lexc>>

ModelB_line46 ==
    /\ lpc = "B46"
    /\ DivideByDuration("B47")
    /\ UNCHANGED <<fn, times, params, errstate, light_curve, lret>>

\* line 47: light_curve = params['amplitude'] / ( 1 + x**2 )
ModelB_line47 ==
    /\ lpc = "B47"
    /\ IF "amplitude" \notin DOMAIN params
       THEN LRaise("KeyError") /\ UNCHANGED light_curve
       ELSE light_curve' = ModelB_curve(x, params) /\ lpc' = "B48" /\ UNCHANGED lexc
    /\ UNCHANGED <<fn, times, params, errstate, x, lret>>

\* line 48: return light_curve
ModelB_line48 ==
    /\ lpc = "B48"
    /\ lret' = light_curve
    /\ lpc' = "returned"
    /\ UNCHANGED <<fn, times, params, errstate, x, light_curve, lexc>>

InitLightCurve ==
    /\ fs \in Filesystems
    /\ DOMAIN fs = {}
    /\ EvidenceIdle
    /\ LightCurveIdle

NextLightCurve ==
    \/ /\ lpc = "idle"
       /\ \E f \in {"A", "B"}, t \in TimeArrays, p \in ParamDicts, es \in ErrStates :
              LCall(f, t, p, es)
       /\ UNCHANGED evars
    \/ ModelA_line23 /\ UNCHANGED evars
    \/ ModelA_line24 /\ UNCHANGED evars
    \/ ModelA_line25 /\ UNCHANGED evars
    \/ ModelB_line46 /\ UNCHANGED evars
    \/ ModelB_line47 /\ UNCHANGED evars
    \/ ModelB_line48 /\ UNCHANGED evars

SpecLightCurve == InitLightCurve /\ [][NextLightCurve]_vars

---------------------------------------------------------------------------
(* Properties of GetEvidence, checked under SpecEvidence. *)

Terminal == pc \in {"returned", "raised"}
DirExists == folder \in DOMAIN fs
MatchingNames == {n \in DOMAIN fs[folder] : Contains(EvidencePattern, n)}
TheMatch == CHOOSE n \in MatchingNames : TRUE

\* the shape of a file, read off its text
NumeralChars == DigitChars \cup {".", "-", "+"}
HasText(c) == \E r \in 1..Len(c) : \E f \in 1..Len(c[r]) : \E i \in 1..Len(c[r][f]) :
                  c[r][f][i] \notin NumeralChars
Numeric(c) == /\ Len(c) >= 1
              /\ Len(c[1]) >= 1
              /\ \A r \in 1..Len(c) : Len(c[r]) = Len(c[1])
              /\ ~HasText(c)
IsRow(c) == Len(c) = 1 /\ Len(c[1]) >= 2
IsColumn(c) == Len(c) >= 2 /\ Len(c[1]) = 1
IsSingle(c) == Len(c) = 1 /\ Len(c[1]) = 1
IsMatrix(c) == Len(c) >= 2 /\ Len(c[1]) >= 2
FirstField(c) == ParseFloat(c[1][1]).val
FirstRow(c) == [f \in 1..Len(c[1]) |-> ParseFloat(c[1][f]).val]

\* the call found its directory, which holds one matching entry
OneMatch == Terminal /\ DirExists /\ Cardinality(MatchingNames) = 1

\* C1: when the directory exists and holds exactly one entry whose name contains
\* 'evidence.txt', and that file is one row of two or more numbers or one number
\* per line over two or more lines, GetEvidence returns the first number of the
\* file; the file "3.14 0.01" gives 3.14.
C1_FirstValueReturned ==
    (OneMatch /\ Numeric(fs[folder][TheMatch])
              /\ (IsRow(fs[folder][TheMatch]) \/ IsColumn(fs[folder][TheMatch])))
    => /\ pc = "returned"
       /\ ret = Float64(FirstField(fs[folder][TheMatch]))
       /\ fs[folder][TheMatch] = RowFile => ret = Float64(Rat(314, 100))

C1_Witness ==
    /\ pc = "returned"
    /\ eventID = 42
    /\ model = <<"A">>
    /\ DirExists
    /\ Cardinality(DOMAIN fs[folder]) = 1
    /\ Cardinality(MatchingNames) = 1
    /\ fs[folder][TheMatch] = RowFile
    /\ ret = Float64(Rat(157, 50))

\* C2 as claimed: for every well-formed numeric file, whatever its shape, one
\* scalar equal to the first field is returned.
C2_AnyShapeScalar ==
    (OneMatch /\ Numeric(fs[folder][TheMatch]))
    => /\ pc = "returned"
       /\ ret = Float64(FirstField(fs[folder][TheMatch]))

\* C2 amended: a row or a column file gives the scalar first field; a file of
\* one single number fails with an index error at the [0]; a file of several rows
\* by several columns gives its first row, an array, not a scalar.
C2_ShapeDecides ==
    (OneMatch /\ Numeric(fs[folder][TheMatch]))
    => LET c == fs[folder][TheMatch]
       IN  /\ (IsRow(c) \/ IsColumn(c)) =>
                  pc = "returned" /\ ret = Float64(FirstField(c))
           /\ IsSingle(c) =>
                  /\ pc = "raised"
                  /\ exc = [type |-> "IndexError", at |-> "index"]
                  /\ ret = NoValue
           /\ IsMatrix(c) =>
                  /\ pc = "returned"
                  /\ ret = NdArray(<<Len(c[1])>>, FirstRow(c))

C2_Witness ==
    /\ OneMatch
    /\ IsMatrix(fs[folder][TheMatch])
    /\ pc = "returned"
    /\ ret.kind = "ndarray"
    /\ Len(ret.data) >= 2

\* C3: when the directory exists but no entry name contains 'evidence.txt' (the
\* empty directory included), GetEvidence fails with an index error raised from
\* the empty selection, before any file is loaded.
C3_NoMatchIndexError ==
    (pc # "idle" /\ DirExists /\ MatchingNames = {})
    => /\ opened = <<>>
       /\ pc \in {"line8", "line9", "raised"}
       /\ pc = "raised" =>
              /\ exc = [type |-> "IndexError", at |-> "select"]
              /\ ops = <<"listdir", "filter">>
              /\ ret = NoValue

C3_Witness ==
    /\ pc = "raised"
    /\ DirExists
    /\ DOMAIN fs[folder] # {}
    /\ MatchingNames = {}
    /\ exc = [type |-> "IndexError", at |-> "select"]

\* C4: when the directory does not exist, GetEvidence fails with a
\* directory-not-found error at the listing: the listing is attempted once, and
\* neither the filter nor a load follows.
C4_MissingDirectory ==
    (pc # "idle" /\ ~DirExists)
    => /\ pc \in {"line8", "raised"}
       /\ opened = <<>>
       /\ pc = "raised" =>
              /\ exc = [type |-> "FileNotFoundError", at |-> "listdir"]
              /\ ops = <<"listdir">>
              /\ ret = NoValue

C4_Witness ==
    /\ pc = "raised"
    /\ DOMAIN fs # {}
    /\ ~DirExists
    /\ exc = [type |-> "FileNotFoundError", at |-> "listdir"]
    /\ ops = <<"listdir">>

\* the call loaded the entry it selected
LoadedOne == Terminal /\ opened # <<>>

\* C5 as claimed: when the matched file is empty or its content is not numeric,
\* the load step raises a parse error.
C5_ParseErrorAtLoad ==
    (LoadedOne /\ (fs[folder][evidence_file] = EmptyFile \/ HasText(fs[folder][evidence_file])))
    => /\ pc = "raised"
       /\ exc = [type |-> "ValueError", at |-> "loadtxt"]

\* C5 amended: content that is not numeric fails with a parse error raised by the
\* load; an empty file is loaded as an empty array, and the [0] that follows
\* fails with an index error; no value is returned either way.
C5_EmptyFailsAtIndex ==
    LoadedOne
    => /\ HasText(fs[folder][evidence_file]) =>
              /\ pc = "raised"
              /\ exc = [type |-> "ValueError", at |-> "loadtxt"]
              /\ ret = NoValue
       /\ fs[folder][evidence_file] = EmptyFile =>
              /\ pc = "raised"
              /\ exc = [type |-> "IndexError", at |-> "index"]
              /\ loaded = NdArray(<<0>>, <<>>)
              /\ ret = NoValue

C5_Witness ==
    /\ LoadedOne
    /\ fs[folder][evidence_file] = EmptyFile
    /\ pc = "raised"
    /\ exc.at = "index"

\* C10: whatever the directory holds, at most one file is loaded: the first
\* entry, in the order the listing gave, whose name contains 'evidence.txt'; the
\* value returned is the one that file gives, so two calls on the same,
\* unchanged directory can return different values.
C10_FirstMatchInListingOrder ==
    /\ Len(opened) <= 1
    /\ opened # <<>> =>
          \E i \in 1..Len(files) :
              /\ files[i] = evidence_file
              /\ opened[1] = folder \o files[i]
              /\ Contains(EvidencePattern, files[i])
              /\ \A j \in 1..(i - 1) : ~Contains(EvidencePattern, files[j])
              /\ pc = "returned" => ret = Index0(LoadTxt(fs[folder][files[i]]).arr).val

C10_Witness ==
    /\ pc = "returned"
    /\ prev.pc = "returned"
    /\ prev.eventID = eventID
    /\ prev.model = model
    /\ Cardinality(MatchingNames) = 2
    /\ prev.ret # ret

---------------------------------------------------------------------------
(* Properties of the light curves, checked under SpecLightCurve. *)

LTerminal == lpc \in {"returned", "raised"}
HasKeys == DOMAIN params = ParamKeys
ModelOf(f, t, p) == IF f = "A" THEN ModelA_lightcurve(t, p) ELSE ModelB_lightcurve(t, p)

C7_Elementwise ==
    (LTerminal /\ HasKeys /\ ~IsZero(params["duration"]))
    => /\ lpc = "returned"
       /\ Len(lret) = Len(times)
       /\ \A i \in 1..Len(times) : lret[i] = ModelOf(fn, <<times[i]>>, params)[1]

C7_Witness ==
    /\ lpc = "returned"
    /\ HasKeys
    /\ ~IsZero(params["duration"])
    /\ Len(times) = MaxLen
    /\ Len(lret) = MaxLen
    /\ \E i, j \in 1..Len(lret) : lret[i] # lret[j]

\* C8: for every amplitude and every non-zero duration, of either sign, the
\* light curve of the single time stamp 0 is exactly the amplitude.
C8_PeakAtZero ==
    (LTerminal /\ HasKeys /\ ~IsZero(params["duration"]) /\ times = <<Rat(0, 1)>>)
    => /\ lpc = "returned"
       /\ Len(lret) = 1
       /\ FloatEq(lret[1], params["amplitude"])

C8_Witness ==
    /\ lpc = "returned"
    /\ fn = "B"
    /\ HasKeys
    /\ params["duration"].n < 0
    /\ ~IsZero(params["amplitude"])
    /\ times = <<Rat(0, 1)>>
    /\ lret = <<params["amplitude"]>>

\* C9: for a single time stamp t and a non-zero duration, the light curve of t
\* equals the light curve of -t, and of every t2 with duration d2 such that
\* (t2/d2)^2 = (t/duration)^2.
C9_Symmetric ==
    (LTerminal /\ HasKeys /\ ~IsZero(params["duration"]) /\ Len(times) = 1)
    => /\ lpc = "returned"
       /\ FloatEq(lret[1], ModelOf(fn, <<Negative(times[1])>>, params)[1])
       /\ \A t2 \in Timestamps, d2 \in Durations :
              (/\ ~IsZero(d2)
               /\ Multiply(Divide(t2, d2), Divide(t2, d2))
                    = Multiply(Divide(times[1], params["duration"]),
                               Divide(times[1], params["duration"])))
              => FloatEq(lret[1],
                         ModelOf(fn, <<t2>>, [params EXCEPT !["duration"] = d2])[1])

C9_Witness ==
    /\ lpc = "returned"
    /\ fn = "A"
    /\ HasKeys
    /\ ~IsZero(params["duration"])
    /\ ~IsZero(params["amplitude"])
    /\ Len(times) = 1
    /\ times[1].n > 0
    /\ lret[1] # params["amplitude"]
    /\ lret = ModelA_lightcurve(<<Negative(times[1])>>, params)

===========================================================================
